---- MODULE Spec2Model ----
(***************************************************************************)
(* A model of the data pipeline of nlse_parameter_nn:                      *)
(*   engine/utils.py    set_seed, normalize_data, data_split, the noise    *)
(*                      synthesizers' random draws                         *)
(*   engine/augment.py  data_augmentation (shuffle + replicate)            *)
(*   engine/use.py      get_parameters (experimental inference)            *)
(*   engine/utils.py    general_extrema, line_noise                        *)
(*   single_power/n2_finder_analysis_single_power.py  analysis             *)
(*   n2_experimental_resnet_multiple_power.py  inference and report loops  *)
(* Arrays are sequences (1-based; index i here is index i-1 in Python).    *)
(* A sample of the dataset is an opaque image identified by a number.      *)
(***************************************************************************)
EXTENDS Integers, Sequences, FiniteSets, TLC

(***************************************************************************)
(* Bounds of the model.                                                    *)
(***************************************************************************)
\* the longest dataset / label array handed to data_augmentation
MaxN == 2
\* the number of states of each pseudo-random stream
RngMod == 8
\* seeds 0..MaxSeed (and the modules' own seed) are passed to set_seed
MaxSeed == 0

\* the longest dataset handed to data_split
MaxSplitLen == 5
\* ratios are the exact fractions k / Den
Den == 10
\* ... with k from -MaxExcess to Den + MaxExcess
MaxExcess == 2
\* normalize_data: pixels per slice, largest pixel value, calls in a row
MaxPixels == 3
MaxVal == 2
MaxCalls == 2
\* get_parameters: the largest grid value and the largest network output
MaxGridVal == 2
MaxOut == 1
\* general_extrema: phase values run from -MaxPhase to MaxPhase
MaxPhase == 1
\* line_noise: images of 1..MaxLineSide rows and columns
MaxLineSide == 4
\* analysis: power_values holds up to MaxPowers of the powers 1..MaxPowers
MaxPowers == 2
\* multiple-power script: the networks predict class indices 0..MaxClass
MaxClass == 1

(***************************************************************************)
(* Program constants.                                                      *)
(***************************************************************************)
\* augment.py:44  augmentation = 16
augmentation == 16
\* augment.py:7, use.py:13  set_seed(10) at module import
ModuleSeed == 10
\* use.py:85  E = np.zeros((1, 4, 256, 256), dtype=np.float16)
TensorSide == 256
\* use.py:107  plot_results is called with 11 positional arguments
PlotResultsArgsPassed == 11
\* utils.py:311-321  plot_results takes 9 parameters
PlotResultsParams == 9

Seeds == (0..MaxSeed) \cup {ModuleSeed}
RngStates == 0..(RngMod - 1)
Modules == {"augment", "use"}

VARIABLES
    imported,           \* engine modules whose body has run in this process
    rng,                \* the three global random streams: py, np, torch
    last_seed,          \* {} before any set_seed, else {seed of the last one}
    fresh,              \* no draw from any stream since the last set_seed
    import_seed_calls,  \* set_seed invocations made by module bodies
    unseeded_ops,       \* a randomized operation ran before any set_seed
    aug_in,             \* the (E, labels) the caller holds
    aug_out,            \* what the last data_augmentation call did
    aug_ref,            \* per seed: first result of set_seed(s); data_augmentation
    seed_ref            \* per seed: the streams the first set_seed(s) left

VARIABLES
    split_call,         \* the last data_split call: arguments and outcome
    nd_in,              \* the array first handed to normalize_data
    nd_data,            \* the buffer normalize_data works on, in place
    nd_first,           \* the buffer as the first call left it
    nd_calls            \* normalize_data calls made on the buffer

aug_vars == <<imported, rng, last_seed, fresh, import_seed_calls, unseeded_ops,
              aug_in, aug_out, aug_ref, seed_ref>>
VARIABLES
    gp_pc,              \* where the get_parameters call stands
    gp_args,            \* its arguments
    gp_env,             \* its locals: grid sizes and extrema
    gp_dev,             \* where the network, the input and the outputs live
    gp_chan,            \* the four preprocessed channel images
    gp_E,               \* the tensor assembled for the network
    gp_outputs,         \* the network's three outputs for the sample
    gp_computed,        \* (computed_n2, computed_isat, computed_alpha)
    gp_log,             \* what the call did, in order
    gp_error            \* the exception that ended the call, if any

split_vars == <<split_call>>
norm_vars == <<nd_in, nd_data, nd_first, nd_calls>>
gp_vars == <<gp_pc, gp_args, gp_env, gp_dev, gp_chan, gp_E, gp_outputs, gp_computed,
             gp_log, gp_error>>

VARIABLES
    ge_in,              \* the phase array handed to general_extrema
    ge_arg,             \* the caller's array, which the call works on in place
    ge_out,             \* the array general_extrema returned
    ge_branch           \* the branch the call took

VARIABLES
    ln_args,            \* line_noise arguments: image, num_lines, amplitude, angle
    ln_image,           \* the caller's image array
    ln_out              \* the array line_noise returned

VARIABLES
    an,                 \* analysis(path, power_values): its arguments and locals
    an_disk,            \* the testing.txt files under path
    an_file             \* what analysis wrote to model_analysis_single_power.json

ge_vars == <<ge_in, ge_arg, ge_out, ge_branch>>
ln_vars == <<ln_args, ln_image, ln_out>>
VARIABLES
    mp,                 \* the multiple-power script: its globals and position
    mp_report,          \* what its reporting loop has read, pair by pair
    mp_error            \* the exception that ended the script, if any

an_vars == <<an, an_disk, an_file>>
mp_vars == <<mp, mp_report, mp_error>>
ext_vars == <<ge_vars, ln_vars, an_vars, mp_vars>>
vars == <<aug_vars, split_vars, norm_vars, gp_vars, ext_vars>>

(***************************************************************************)
(* The random streams.  Each generator (Python's random, NumPy's legacy    *)
(* RandomState, Torch's default generator) is a deterministic function of  *)
(* its state; the model keeps that and abstracts the Mersenne twister to a *)
(* full-period congruential generator over RngStates.                      *)
(***************************************************************************)
NextState(st) == (5 * st + 3) % RngMod

RECURSIVE Advance(_, _)
Advance(st, k) == IF k = 0 THEN st ELSE Advance(NextState(st), k - 1)

\* the state each stream gets from random.seed(s), np.random.seed(s),
\* torch.manual_seed(s): a function of the seed alone
SeededRng(seed) ==
    [py |-> (seed + 1) % RngMod, np |-> seed % RngMod, torch |-> (seed + 2) % RngMod]

\* set_seed without its np.random.seed(seed) line
set_seed_without_numpy(seed) == [SeededRng(seed) EXCEPT !.np = rng.np]

\* utils.py set_seed: every stream is re-initialised from the seed
set_seed(seed) == SeededRng(seed)

Swap(s, i, j) == [s EXCEPT ![i] = s[j], ![j] = s[i]]

\* np.random.shuffle: Fisher-Yates from the last index down, one draw
\* j in 0..i per step (here 1..i); n-1 draws for n elements
RECURSIVE ShuffleFrom(_, _, _)
ShuffleFrom(arr, i, st) ==
    IF i <= 1 THEN [arr |-> arr, st |-> st]
    ELSE LET st2 == NextState(st)
             j == 1 + (st2 % i)
         IN ShuffleFrom(Swap(arr, i, j), i - 1, st2)

shuffle(arr, st) == ShuffleFrom(arr, Len(arr), st)

(***************************************************************************)
(* NumPy array operations used by data_augmentation.                       *)
(***************************************************************************)
arange(n) == [i \in 1..n |-> i]

\* a[indices]: fancy indexing; an index past the end raises IndexError
IndexOk(a, indices) == \A k \in 1..Len(indices) : indices[k] <= Len(a)
Take(a, indices) == [k \in 1..Len(indices) |-> a[indices[k]]]

\* np.repeat(a, r, axis=0): each element r times, contiguously
repeat(a, r) == [k \in 1..(Len(a) * r) |-> a[((k - 1) \div r) + 1]]

(***************************************************************************)
(* augment.py data_augmentation(E, labels)                                 *)
(***************************************************************************)
NoResult == [status |-> "none", E |-> <<>>, n2 |-> <<>>, isat |-> <<>>, alpha |-> <<>>,
             counts |-> <<>>, indices |-> <<>>]

\* data_augmentation without its alpha_labels = alpha_labels[indices] line
data_augmentation_alpha_unshuffled(in, st) ==
    LET sh == shuffle(arange(Len(in.n2)), st)
        indices == sh.arr
    IN  IF /\ IndexOk(in.isat, indices)
           /\ IndexOk(in.E, indices)
        THEN [res |-> [status |-> "returned",
                       E |-> repeat(Take(in.E, indices), augmentation),
                       n2 |-> repeat(Take(in.n2, indices), augmentation),
                       isat |-> repeat(Take(in.isat, indices), augmentation),
                       alpha |-> repeat(in.alpha, augmentation),
                       counts |-> in.counts,
                       indices |-> indices],
              st |-> sh.st]
        ELSE [res |-> [NoResult EXCEPT !.status = "IndexError"], st |-> sh.st]

data_augmentation(in, st) ==
    LET sh == shuffle(arange(Len(in.n2)), st)
        indices == sh.arr
    IN  IF /\ IndexOk(in.isat, indices)
           /\ IndexOk(in.alpha, indices)
           /\ IndexOk(in.E, indices)
        THEN [res |-> [status |-> "returned",
                       E |-> repeat(Take(in.E, indices), augmentation),
                       n2 |-> repeat(Take(in.n2, indices), augmentation),
                       isat |-> repeat(Take(in.isat, indices), augmentation),
                       alpha |-> repeat(Take(in.alpha, indices), augmentation),
                       counts |-> in.counts,
                       indices |-> indices],
              st |-> sh.st]
        ELSE [res |-> [NoResult EXCEPT !.status = "IndexError"], st |-> sh.st]

(***************************************************************************)
(* utils.py data_split.  A ratio is the exact fraction k / Den, so a sum   *)
(* of ratios is 1 when the numerators sum to Den.                          *)
(***************************************************************************)
\* Python int(): truncation toward zero of the quotient a / b, b > 0
int(a, b) == IF a >= 0 THEN a \div b ELSE -((-a) \div b)

\* a[lo:hi] on the first axis: a negative bound counts from the end, and
\* bounds are clipped to the array
ClipIndex(i, n) == IF i < 0 THEN (IF i + n < 0 THEN 0 ELSE i + n)
                   ELSE IF i > n THEN n ELSE i
slice(a, lo, hi) == SubSeq(a, ClipIndex(lo, Len(a)) + 1, ClipIndex(hi, Len(a)))

NoPart == [E |-> <<>>, n2 |-> <<>>, isat |-> <<>>, alpha |-> <<>>]
SplitPart(in, lo, hi) ==
    [E |-> slice(in.E, lo, hi), n2 |-> slice(in.n2, lo, hi),
     isat |-> slice(in.isat, lo, hi), alpha |-> slice(in.alpha, lo, hi)]

\* data_split with validation_index = int(len(indices) * validation_ratio)
data_split_validation_index(in, tr, vr, te) ==
    IF tr + vr + te # Den
    THEN [status |-> "AssertionError", train |-> NoPart, validation |-> NoPart, test |-> NoPart]
    ELSE LET n == Len(in.E)
             train_index == int(n * tr, Den)
             validation_index == int(n * vr, Den)
         IN [status |-> "returned",
             train |-> SplitPart(in, 0, train_index),
             validation |-> SplitPart(in, train_index, validation_index),
             test |-> SplitPart(in, validation_index, n)]

\* data_split without its assert
data_split_unchecked(in, tr, vr, te) ==
    LET n == Len(in.E)
        train_index == int(n * tr, Den)
        validation_index == int(n * (tr + vr), Den)
    IN [status |-> "returned",
        train |-> SplitPart(in, 0, train_index),
        validation |-> SplitPart(in, train_index, validation_index),
        test |-> SplitPart(in, validation_index, n)]

data_split(in, tr, vr, te) ==
    IF tr + vr + te # Den
    THEN [status |-> "AssertionError", train |-> NoPart, validation |-> NoPart, test |-> NoPart]
    ELSE LET n == Len(in.E)
             train_index == int(n * tr, Den)
             validation_index == int(n * (tr + vr), Den)
         IN [status |-> "returned",
             train |-> SplitPart(in, 0, train_index),
             validation |-> SplitPart(in, train_index, validation_index),
             test |-> SplitPart(in, validation_index, n)]

RatioNums == (-MaxExcess)..(Den + MaxExcess)

NoSplit == [status |-> "none", train |-> NoPart, validation |-> NoPart, test |-> NoPart]
SplitIdle == split_call = [in |-> NoPart, tr |-> 0, vr |-> 0, te |-> 0, out |-> NoSplit]

\* a dataset of n samples with its three label arrays
SplitInput(n) ==
    [E |-> [i \in 1..n |-> i], n2 |-> [i \in 1..n |-> 100 + i],
     isat |-> [i \in 1..n |-> 200 + i], alpha |-> [i \in 1..n |-> 300 + i]]

\* the arguments a caller is about to pass
SplitArgs ==
    \E n \in 0..MaxSplitLen, tr \in RatioNums, vr \in RatioNums, te \in RatioNums :
        split_call = [in |-> SplitInput(n), tr |-> tr, vr |-> vr, te |-> te, out |-> NoSplit]

\* the call data_split(E, n2_labels, isat_labels, alpha_labels, tr, vr, te)
DataSplit ==
    /\ split_call.out.status = "none"
    /\ split_call' = [split_call EXCEPT
                        !.out = data_split(split_call.in, split_call.tr,
                                           split_call.vr, split_call.te)]
    /\ UNCHANGED <<aug_vars, norm_vars, gp_vars, ext_vars>>

(***************************************************************************)
(* utils.py normalize_data, on a stack of slices; a slice is the sequence  *)
(* of its pixels (the last two axes flattened: min and max run over both). *)
(* A value is an exact fraction n/d in lowest terms, d > 0; NaN is 0/0.    *)
(***************************************************************************)
RECURSIVE Gcd(_, _)
Gcd(a, b) == IF b = 0 THEN a ELSE Gcd(b, a % b)
Abs(x) == IF x < 0 THEN -x ELSE x

NaN == [n |-> 0, d |-> 0]
IsNaN(x) == x.d = 0
Frac(n, d) ==
    IF d = 0 THEN NaN
    ELSE LET g == Gcd(Abs(n), Abs(d))
             sgn == IF d < 0 THEN -1 ELSE 1
         IN [n |-> sgn * (n \div g), d |-> sgn * (d \div g)]
Whole(k) == [n |-> k, d |-> 1]
FSub(x, y) == IF IsNaN(x) \/ IsNaN(y) THEN NaN ELSE Frac(x.n * y.d - y.n * x.d, x.d * y.d)
\* IEEE division: 0/0 is NaN (a nonzero value over 0 does not arise here:
\* after the subtraction the maximum is 0 only when every pixel is 0)
FDiv(x, y) == IF IsNaN(x) \/ IsNaN(y) THEN NaN ELSE Frac(x.n * y.d, x.d * y.n)
FLeq(x, y) == x.n * y.d <= y.n * x.d

SliceValues(sl) == {sl[i] : i \in 1..Len(sl)}
\* np.min / np.max over the last two axes: NaN if any pixel is NaN
FMin(sl) == IF \E x \in SliceValues(sl) : IsNaN(x) THEN NaN
            ELSE CHOOSE m \in SliceValues(sl) : \A x \in SliceValues(sl) : FLeq(m, x)
FMax(sl) == IF \E x \in SliceValues(sl) : IsNaN(x) THEN NaN
            ELSE CHOOSE m \in SliceValues(sl) : \A x \in SliceValues(sl) : FLeq(x, m)

SubtractMin(sl) == LET m == FMin(sl) IN [i \in 1..Len(sl) |-> FSub(sl[i], m)]
DivideBy(sl, m) == [i \in 1..Len(sl) |-> FDiv(sl[i], m)]

\* normalize_data dividing by the maximum taken before the subtraction
normalize_data_stale_max(data) ==
    [k \in 1..Len(data) |-> DivideBy(SubtractMin(data[k]), FMax(data[k]))]

\* data -= min(keepdims); data /= max(keepdims): per slice, the maximum
\* being that of the already shifted slice
normalize_data(data) ==
    [k \in 1..Len(data) |-> LET shifted == SubtractMin(data[k])
                            IN DivideBy(shifted, FMax(shifted))]

SliceIds == {1, 2}
NormInputs ==
    UNION {[SliceIds -> [1..px -> {Whole(v) : v \in 0..MaxVal}]] : px \in 1..MaxPixels}

NormIdle ==
    /\ nd_in = <<>>
    /\ nd_data = <<>>
    /\ nd_first = <<>>
    /\ nd_calls = 0

\* data = normalize_data(data): the buffer is overwritten in place
NormalizeData ==
    /\ nd_calls < MaxCalls
    /\ nd_data' = normalize_data(nd_data)
    /\ nd_first' = IF nd_calls = 0 THEN nd_data' ELSE nd_first
    /\ nd_calls' = nd_calls + 1
    /\ UNCHANGED <<nd_in, aug_vars, split_vars, gp_vars, ext_vars>>

(***************************************************************************)
(* use.py get_parameters.  Physical values are integers in fixed units;    *)
(* the network (engine.model) and data_creation (engine.generate) are      *)
(* outside the core: the network returns any three outputs.                *)
(***************************************************************************)
SeqMin(g) == CHOOSE m \in SliceValues(g) : \A x \in SliceValues(g) : m <= x
SeqMax(g) == CHOOSE m \in SliceValues(g) : \A x \in SliceValues(g) : x <= m

\* the extrema taken with n2.max() in place of n2.min()
GridExtrema_n2_max(n2, isat, alpha) ==
    [min_n2 |-> SeqMax(n2), max_isat |-> SeqMax(isat), max_alpha |-> SeqMax(alpha)]

\* min_n2 = n2.min(); max_isat = isat.max(); max_alpha = alpha.max()
GridExtrema(n2, isat, alpha) ==
    [min_n2 |-> SeqMin(n2), max_isat |-> SeqMax(isat), max_alpha |-> SeqMax(alpha)]

\* computed_* = outputs_*[0,0].cpu().numpy() * extremum
Denormalize(out, env) ==
    <<out[1] * env.min_n2, out[2] * env.max_isat, out[3] * env.max_alpha>>

\* dst[...] = src: each axis of src equals that of dst or is 1
BroadcastOk(src, dst) ==
    /\ Len(src) = Len(dst)
    /\ \A k \in 1..Len(src) : src[k] = dst[k] \/ src[k] = 1

ZeroTensor == [shape |-> <<1, 4, TensorSide, TensorSide>>,
               ch |-> <<"zeros", "zeros", "zeros", "zeros">>]
NoTensor == [shape |-> <<>>, ch |-> <<>>]

\* the tensor as the four channel assignments leave it, or the allocated
\* zeros when the first assignment cannot broadcast
AssembleTensor(chan) ==
    IF \A k \in 1..4 : BroadcastOk(chan[k].shape, <<TensorSide, TensorSide>>)
    THEN [ZeroTensor EXCEPT !.ch = <<chan[1].what, chan[2].what, chan[3].what, chan[4].what>>]
    ELSE ZeroTensor

\* density, its descriptor, phase, its descriptor at the training resolution
Preprocess(res) ==
    <<[what |-> "normalized_amplitude", shape |-> <<res, res>>],
      [what |-> "hog_amplitude", shape |-> <<res, res>>],
      [what |-> "normalized_phase", shape |-> <<res, res>>],
      [what |-> "hog_phase", shape |-> <<res, res>>]>>

GridIdx == {1, 2}
Grids == [GridIdx -> 1..MaxGridVal]
Resolutions == {128, 256, 512}
OutVals == 0..MaxOut
Event(e, a) == [ev |-> e, arg |-> a]

NoDev == [acquired |-> 0, cnn |-> "none", weights |-> FALSE, images |-> "none",
          grad |-> TRUE, outputs |-> "none"]

GPIdle ==
    /\ gp_pc = "idle"
    /\ gp_args = [n2 |-> <<>>, isat |-> <<>>, alpha |-> <<>>, in_power |-> 0, waist |-> 0,
                  nl_length |-> 0, delta_z |-> 0, length |-> 0, resolution_training |-> 0,
                  plot_generate_compare |-> FALSE, weights_file |-> FALSE]
    /\ gp_env = [number_of_n2 |-> 0, number_of_isat |-> 0, number_of_alpha |-> 0,
                 min_n2 |-> 0, max_isat |-> 0, max_alpha |-> 0]
    /\ gp_dev = NoDev
    /\ gp_chan = <<>>
    /\ gp_E = NoTensor
    /\ gp_outputs = <<>>
    /\ gp_computed = <<>>
    /\ gp_log = <<>>
    /\ gp_error = "none"

GPOnly == UNCHANGED <<aug_vars, split_vars, norm_vars, ext_vars>>

\* use.py 51-60: the call, the unpacking, the grid sizes and the extrema
GPCall ==
    /\ gp_pc = "idle"
    /\ \E g2 \in Grids, gi \in Grids, ga \in Grids, res \in Resolutions,
          flag \in BOOLEAN, wf \in BOOLEAN :
          LET n2 == [i \in GridIdx |-> -g2[i]]
              ex == GridExtrema(n2, gi, ga)
          IN /\ gp_args' = [n2 |-> n2, isat |-> gi, alpha |-> ga, in_power |-> 5,
                            waist |-> 6, nl_length |-> 7, delta_z |-> 8, length |-> 9,
                            resolution_training |-> res,
                            plot_generate_compare |-> flag, weights_file |-> wf]
             /\ gp_env' = [number_of_n2 |-> Len(n2), number_of_isat |-> Len(gi),
                           number_of_alpha |-> Len(ga), min_n2 |-> ex.min_n2,
                           max_isat |-> ex.max_isat, max_alpha |-> ex.max_alpha]
    /\ gp_pc' = "unpacked"
    /\ gp_log' = <<Event("call", <<>>)>>
    /\ UNCHANGED <<gp_dev, gp_chan, gp_E, gp_outputs, gp_computed, gp_error>>
    /\ GPOnly

\* use.py 62-64: the device, the network, the network moved onto the device
GPDevice ==
    /\ gp_pc = "unpacked"
    /\ gp_dev' = [gp_dev EXCEPT !.acquired = gp_dev.acquired + 1, !.cnn = "device"]
    /\ gp_log' = gp_log \o <<Event("device", <<>>), Event("cnn_to_device", <<>>)>>
    /\ gp_pc' = "on_device"
    /\ UNCHANGED <<gp_args, gp_env, gp_chan, gp_E, gp_outputs, gp_computed, gp_error>>
    /\ GPOnly

\* use.py 66-68: the weights file is loaded, or the load raises
GPLoadWeights ==
    /\ gp_pc = "on_device"
    /\ IF gp_args.weights_file
       THEN /\ gp_dev' = [gp_dev EXCEPT !.weights = TRUE]
            /\ gp_log' = Append(gp_log, Event("load_state_dict", <<>>))
            /\ gp_pc' = "loaded"
            /\ UNCHANGED gp_error
       ELSE /\ gp_error' = "FileNotFoundError"
            /\ gp_pc' = "raised"
            /\ UNCHANGED <<gp_dev, gp_log>>
    /\ UNCHANGED <<gp_args, gp_env, gp_chan, gp_E, gp_outputs, gp_computed>>
    /\ GPOnly

\* use.py 70-82: the field is loaded; amplitude and phase are resampled to
\* the training resolution and normalized; their descriptors are computed
GPPreprocess ==
    /\ gp_pc = "loaded"
    /\ gp_chan' = Preprocess(gp_args.resolution_training)
    /\ gp_log' = Append(gp_log, Event("preprocess", <<gp_args.resolution_training>>))
    /\ gp_pc' = "preprocessed"
    /\ UNCHANGED <<gp_args, gp_env, gp_dev, gp_E, gp_outputs, gp_computed, gp_error>>
    /\ GPOnly

\* use.py 85-89: the zero tensor is allocated and the channels assigned
GPAssemble ==
    /\ gp_pc = "preprocessed"
    /\ gp_E' = AssembleTensor(gp_chan)
    /\ IF \A k \in 1..4 : BroadcastOk(gp_chan[k].shape, <<TensorSide, TensorSide>>)
       THEN /\ gp_pc' = "assembled"
            /\ gp_log' = Append(gp_log, Event("assemble", gp_E'.shape))
            /\ UNCHANGED gp_error
       ELSE /\ gp_pc' = "raised"
            /\ gp_error' = "ValueError"
            /\ UNCHANGED gp_log
    /\ UNCHANGED <<gp_args, gp_env, gp_dev, gp_chan, gp_outputs, gp_computed>>
    /\ GPOnly

\* the forward pass with the tensor moved onto the device only afterwards
GPForward_host_tensor ==
    /\ gp_pc = "assembled"
    /\ \E o \in [1..3 -> OutVals] : gp_outputs' = o
    /\ gp_dev' = [gp_dev EXCEPT !.images = "device", !.outputs = "device"]
    /\ gp_log' = gp_log \o <<Event("no_grad_enter", <<>>), Event("forward", gp_E.shape),
                              Event("images_to_device", <<>>), Event("no_grad_exit", <<>>)>>
    /\ gp_pc' = "forwarded"
    /\ UNCHANGED <<gp_args, gp_env, gp_chan, gp_E, gp_computed, gp_error>>
    /\ GPOnly

\* use.py 91-93: under no_grad, the tensor is moved onto the device and the
\* network run; grad mode is restored when the block ends
GPForward ==
    /\ gp_pc = "assembled"
    /\ \E o \in [1..3 -> OutVals] : gp_outputs' = o
    /\ gp_dev' = [gp_dev EXCEPT !.images = "device", !.outputs = "device"]
    /\ gp_log' = gp_log \o <<Event("no_grad_enter", <<>>), Event("images_to_device", <<>>),
                              Event("forward", gp_E.shape), Event("no_grad_exit", <<>>)>>
    /\ gp_pc' = "forwarded"
    /\ UNCHANGED <<gp_args, gp_env, gp_chan, gp_E, gp_computed, gp_error>>
    /\ GPOnly

\* use.py 95-97: each output is moved to the host, converted and rescaled
GPDenormalize ==
    /\ gp_pc = "forwarded"
    /\ gp_computed' = Denormalize(gp_outputs, gp_env)
    /\ gp_dev' = [gp_dev EXCEPT !.outputs = "host"]
    /\ gp_log' = gp_log \o <<Event("cpu", <<1>>), Event("numpy", <<1>>),
                              Event("cpu", <<2>>), Event("numpy", <<2>>),
                              Event("cpu", <<3>>), Event("numpy", <<3>>)>>
    /\ gp_pc' = "computed"
    /\ UNCHANGED <<gp_args, gp_env, gp_chan, gp_E, gp_outputs, gp_error>>
    /\ GPOnly

\* use.py 99-101: the three values are printed
GPPrint ==
    /\ gp_pc = "computed"
    /\ gp_log' = Append(gp_log, Event("print", gp_computed))
    /\ gp_pc' = "printed"
    /\ UNCHANGED <<gp_args, gp_env, gp_dev, gp_chan, gp_E, gp_outputs, gp_computed, gp_error>>
    /\ GPOnly

\* use.py 103-106: with the flag set, numbers is built and data_creation called
GPDataCreation ==
    /\ gp_pc = "printed"
    /\ gp_args.plot_generate_compare
    /\ gp_log' = Append(gp_log,
                        Event("data_creation",
                              <<gp_computed[1], gp_args.in_power, gp_computed[3],
                                gp_computed[2], gp_args.waist, gp_args.nl_length,
                                gp_args.delta_z, gp_args.length>>))
    /\ gp_pc' = "generated"
    /\ UNCHANGED <<gp_args, gp_env, gp_dev, gp_chan, gp_E, gp_outputs, gp_computed, gp_error>>
    /\ GPOnly

\* use.py 107 against utils.py 311-321: the call binds its positional
\* arguments to plot_results' parameters, or raises TypeError
GPPlotResults ==
    /\ gp_pc = "generated"
    /\ IF PlotResultsArgsPassed = PlotResultsParams
       THEN /\ gp_log' = Append(gp_log, Event("plot_results", <<PlotResultsArgsPassed>>))
            /\ gp_pc' = "plotted"
            /\ UNCHANGED gp_error
       ELSE /\ gp_error' = "TypeError"
            /\ gp_pc' = "raised"
            /\ UNCHANGED gp_log
    /\ UNCHANGED <<gp_args, gp_env, gp_dev, gp_chan, gp_E, gp_outputs, gp_computed>>
    /\ GPOnly

\* use.py 109: return computed_n2, computed_isat, computed_alpha
GPReturn ==
    /\ \/ gp_pc = "printed" /\ ~gp_args.plot_generate_compare
       \/ gp_pc = "plotted"
    /\ gp_log' = Append(gp_log, Event("return", gp_computed))
    /\ gp_pc' = "returned"
    /\ UNCHANGED <<gp_args, gp_env, gp_dev, gp_chan, gp_E, gp_outputs, gp_computed, gp_error>>
    /\ GPOnly

(***************************************************************************)
(* utils.py general_extrema, on a 2D array: a sequence of rows, each a     *)
(* sequence of integer phase values.  E[i, j] of the code is E[i+1][j+1].  *)
(***************************************************************************)
Height(E) == Len(E)
Width(E) == Len(E[1])
Cells(E) == {E[i][j] : i \in 1..Height(E), j \in 1..Width(E)}
\* E[E.shape[-2]//2, E.shape[-1]//2] and E[0, 0]
Center(E) == E[(Height(E) \div 2) + 1][(Width(E) \div 2) + 1]
Corner(E) == E[1][1]
ArrMax(E) == CHOOSE m \in Cells(E) : \A x \in Cells(E) : x <= m
ArrMin(E) == CHOOSE m \in Cells(E) : \A x \in Cells(E) : m <= x
\* E -= c and np.abs(E), elementwise
Shift(E, c) == [i \in 1..Height(E) |-> [j \in 1..Width(E) |-> E[i][j] - c]]
ArrAbs(E) == [i \in 1..Height(E) |-> [j \in 1..Width(E) |-> Abs(E[i][j])]]

\* general_extrema subtracting the minimum in its first branch
general_extrema_first_min(E) ==
    LET shifted == IF Center(E) > Corner(E) THEN Shift(E, ArrMin(E))
                   ELSE IF Center(E) < 0 THEN Shift(E, ArrMin(E))
                   ELSE E
    IN [out |-> ArrAbs(shifted), arg |-> shifted,
        branch |-> IF Center(E) > Corner(E) THEN "max"
                   ELSE IF Center(E) < 0 THEN "min" ELSE "abs"]

\* general_extrema whose second test is center <= 0
general_extrema_nonpositive(E) ==
    LET shifted == IF Center(E) > Corner(E) THEN Shift(E, ArrMax(E))
                   ELSE IF Center(E) <= 0 THEN Shift(E, ArrMin(E))
                   ELSE E
    IN [out |-> ArrAbs(shifted), arg |-> shifted,
        branch |-> IF Center(E) > Corner(E) THEN "max"
                   ELSE IF Center(E) <= 0 THEN "min" ELSE "abs"]

\* utils.py 57-62.  E -= ... works in place on the caller's array (arg);
\* E = np.abs(E) binds a new array, which is returned (out)
general_extrema(E) ==
    LET shifted == IF Center(E) > Corner(E) THEN Shift(E, ArrMax(E))
                   ELSE IF Center(E) < 0 THEN Shift(E, ArrMin(E))
                   ELSE E
    IN [out |-> ArrAbs(shifted), arg |-> shifted,
        branch |-> IF Center(E) > Corner(E) THEN "max"
                   ELSE IF Center(E) < 0 THEN "min" ELSE "abs"]

PhaseVals == (-MaxPhase)..MaxPhase
Shapes == {<<1, 1>>, <<1, 2>>, <<2, 1>>, <<2, 2>>, <<2, 3>>, <<3, 2>>}
PhaseArrays == UNION {[1..sh[1] -> [1..sh[2] -> PhaseVals]] : sh \in Shapes}

ExtremaIdle ==
    /\ ge_in = <<>>
    /\ ge_arg = <<>>
    /\ ge_out = <<>>
    /\ ge_branch = "none"

\* phase = general_extrema(phase), once on the array
GeneralExtrema ==
    /\ ge_branch = "none"
    /\ LET r == general_extrema(ge_arg)
       IN /\ ge_arg' = r.arg
          /\ ge_out' = r.out
          /\ ge_branch' = r.branch
    /\ UNCHANGED <<ge_in, aug_vars, split_vars, norm_vars, gp_vars, ln_vars, an_vars>>
    /\ UNCHANGED mp_vars

(***************************************************************************)
(* utils.py line_noise.  The angle is given by its exact cosine and sine,  *)
(* c / DirDen and s / DirDen.  A phase is kept exactly as the record       *)
(* [num, den, diag2], standing for 2*pi * num / (den * sqrt(diag2)): its   *)
(* number of sine periods is num / (den * sqrt(diag2)).                    *)
(***************************************************************************)
DirDen == 5
\* np.cos(angle_rad), np.sin(angle_rad) for the angles 0, 36.87, 53.13, 90,
\* 126.87, 180, 270 and 323.13 degrees
Directions == {[c |-> 5, s |-> 0], [c |-> 4, s |-> 3], [c |-> 3, s |-> 4],
               [c |-> 0, s |-> 5], [c |-> -3, s |-> 4], [c |-> -5, s |-> 0],
               [c |-> 0, s |-> -5], [c |-> 4, s |-> -3]}
NumLines == {1, 50, 100}

\* X_rotated = X * cos + Y * sin at column x, row y (from 0), times DirDen
X_rotated(x, y, dir) == x * dir.c + y * dir.s

\* line_noise with the diagonal taken between the corner pixels
line_noise_pixel_diagonal(image, num_lines, amplitude, dir) ==
    LET height == Len(image)
        width == Len(image[1])
        diag2 == (width - 1) * (width - 1) + (height - 1) * (height - 1)
    IN [y \in 1..height |-> [x \in 1..width |->
          [base |-> image[y][x], amplitude |-> amplitude,
           num |-> X_rotated(x - 1, y - 1, dir) * num_lines,
           den |-> DirDen, diag2 |-> diag2]]]

\* utils.py 124-133: the returned array; pixel (y, x) holds
\* image[y, x] + amplitude * sin(X_rotated * wave_frequency), with
\* wave_frequency = num_lines * 2*pi / sqrt(width**2 + height**2)
line_noise(image, num_lines, amplitude, dir) ==
    LET height == Len(image)
        width == Len(image[1])
        diag2 == width * width + height * height
    IN [y \in 1..height |-> [x \in 1..width |->
          [base |-> image[y][x], amplitude |-> amplitude,
           num |-> X_rotated(x - 1, y - 1, dir) * num_lines,
           den |-> DirDen, diag2 |-> diag2]]]

\* the images: a flat one and a graded one of each size
LineImages ==
    {[y \in 1..h |-> [x \in 1..w |-> g * (10 * y + x)]] :
        h \in 1..MaxLineSide, w \in 1..MaxLineSide, g \in {0, 1}}

LineIdle ==
    /\ ln_args = [image |-> <<>>, num_lines |-> 0, amplitude |-> 0,
                  angle |-> [c |-> 0, s |-> 0]]
    /\ ln_image = <<>>
    /\ ln_out = <<>>

\* noisy = line_noise(image, num_lines, amplitude, angle): image.copy()
\* leaves the caller's array alone
LineNoise ==
    /\ ln_out = <<>>
    /\ ln_out' = line_noise(ln_image, ln_args.num_lines, ln_args.amplitude, ln_args.angle)
    /\ UNCHANGED <<ln_args, ln_image, ge_vars, aug_vars, split_vars, norm_vars, gp_vars>>
    /\ UNCHANGED <<an_vars, mp_vars>>

(***************************************************************************)
(* Python dicts: functions whose domain is the set of keys.                *)
(***************************************************************************)
EmptyDict == [k \in {} |-> 0]
DictSet(d, key, val) == [k \in (DOMAIN d) \cup {key} |-> IF k = key THEN val ELSE d[k]]

(***************************************************************************)
(* single_power/n2_finder_analysis_single_power.py analysis, statement by  *)
(* statement.  A loop variable keeps its last value when its loop ends.    *)
(***************************************************************************)
\* line 10
data_types == <<"amp", "amp_pha", "amp_pha_unwrap", "pha", "pha_unwrap",
                "amp_pha_pha_unwrap">>
\* line 15: range(2, 6)
ModelIndices == <<2, 3, 4, 5>>
\* line 17: f"model_resnetv{model_index}_1powers"
SinglePowerVersion(model_index) ==
    CASE model_index = 2 -> "model_resnetv2_1powers"
      [] model_index = 3 -> "model_resnetv3_1powers"
      [] model_index = 4 -> "model_resnetv4_1powers"
      [] model_index = 5 -> "model_resnetv5_1powers"

Powers == 1..MaxPowers
PowerLists == UNION {[1..n -> Powers] : n \in 0..MaxPowers}

\* lines 26-43: what is read from testing.txt of one training: the accuracy,
\* and the index error unless the accuracy reads "100.00"
ReadTesting(disk, power, dti, model_index) ==
    IF disk[power] = 100
    THEN [accuracy |-> 100, index_error |-> 0]
    ELSE [accuracy |-> disk[power], index_error |-> 10 * dti + model_index]

NotWritten == [written |-> FALSE, content |-> EmptyDict]

AnalysisIdle ==
    /\ an = [pc |-> "idle"]
    /\ an_disk = <<>>
    /\ an_file = NotWritten

AnalysisFrame ==
    UNCHANGED <<an_disk, ge_vars, ln_vars, mp_vars, aug_vars, split_vars, norm_vars, gp_vars>>

\* lines 8-12: the call; data_type_results = {}; the outer loop is entered
AnCall ==
    /\ an.pc = "idle"
    /\ \E pv \in PowerLists :
          an' = [pc |-> "data_types_loop", power_values |-> pv,
                 data_type_results |-> EmptyDict, next_data_type |-> 0,
                 data_types_index |-> -1, models |-> EmptyDict, next_model |-> 1,
                 model_index |-> 0, model_version |-> "", model |-> EmptyDict,
                 power_list_accuracy |-> <<>>, power_list_index_error |-> <<>>,
                 next_power |-> 1]
    /\ UNCHANGED an_file
    /\ AnalysisFrame

\* lines 12-14: the next data type and models = {}, or the loop ends and
\* control reaches line 48
AnDataTypesLoop ==
    /\ an.pc = "data_types_loop"
    /\ IF an.next_data_type < Len(data_types)
       THEN an' = [an EXCEPT !.data_types_index = an.next_data_type,
                             !.next_data_type = an.next_data_type + 1,
                             !.models = EmptyDict,
                             !.next_model = 1,
                             !.pc = "models_loop"]
       ELSE an' = [an EXCEPT !.pc = "store_results"]
    /\ UNCHANGED an_file
    /\ AnalysisFrame

\* lines 15-20: the next model version with empty lists, or the loop ends
\* and control reaches line 47
AnModelsLoop ==
    /\ an.pc = "models_loop"
    /\ IF an.next_model <= Len(ModelIndices)
       THEN an' = [an EXCEPT !.model_index = ModelIndices[an.next_model],
                             !.next_model = an.next_model + 1,
                             !.model_version = SinglePowerVersion(ModelIndices[an.next_model]),
                             !.model = EmptyDict,
                             !.power_list_accuracy = <<>>,
                             !.power_list_index_error = <<>>,
                             !.next_power = 1,
                             !.pc = "powers_loop"]
       ELSE an' = [an EXCEPT !.pc = "store_model"]
    /\ UNCHANGED an_file
    /\ AnalysisFrame

\* lines 21-45: one testing.txt is read and its two values appended, or the
\* loop ends and the lists are put into model
AnPowersLoop ==
    /\ an.pc = "powers_loop"
    /\ IF an.next_power <= Len(an.power_values)
       THEN LET r == ReadTesting(an_disk, an.power_values[an.next_power],
                                 an.data_types_index, an.model_index)
            IN an' = [an EXCEPT !.power_list_accuracy = Append(@, r.accuracy),
                                !.power_list_index_error = Append(@, r.index_error),
                                !.next_power = an.next_power + 1]
       ELSE an' = [an EXCEPT !.model = DictSet(DictSet(an.model, "accuracy",
                                                      an.power_list_accuracy),
                                              "index_error", an.power_list_index_error),
                             !.pc = "models_loop"]
    /\ UNCHANGED an_file
    /\ AnalysisFrame

\* line 47, which follows the loop over the models
AnStoreModel ==
    /\ an.pc = "store_model"
    /\ an' = [an EXCEPT !.models = DictSet(an.models, an.model_version, an.model),
                        !.pc = "data_types_loop"]
    /\ UNCHANGED an_file
    /\ AnalysisFrame

\* line 48, which follows the loop over the data types
AnStoreResults ==
    /\ an.pc = "store_results"
    /\ an' = [an EXCEPT !.data_type_results =
                            DictSet(an.data_type_results,
                                    data_types[an.data_types_index + 1], an.models),
                        !.pc = "write"]
    /\ UNCHANGED an_file
    /\ AnalysisFrame

\* lines 50-51: the dictionary is written as a frame with one column per
\* data type and one row per model version
AnWrite ==
    /\ an.pc = "write"
    /\ an_file' = [written |-> TRUE, content |-> an.data_type_results]
    /\ an' = [an EXCEPT !.pc = "done"]
    /\ AnalysisFrame

(***************************************************************************)
(* n2_experimental_resnet_multiple_power.py, from line 49: the inference   *)
(* loops and the reporting loop, statement by statement.  Its data_types   *)
(* (line 49) is the list of analysis.  The networks are outside the core:  *)
(* each forward pass predicts any three class indices.                     *)
(***************************************************************************)
\* line 68: str(Inception_ResNetv2).split('.')[-2], the module of the class
\* imported for model_index
MultiPowerVersion(model_index) ==
    CASE model_index = 2 -> "model_resnetv2"
      [] model_index = 3 -> "model_resnetv3"
      [] model_index = 4 -> "model_resnetv4"
      [] model_index = 5 -> "model_resnetv5"

\* lines 103-106: f"model_resnetv{model_index}"
ReportKey(model_index) ==
    CASE model_index = 2 -> "model_resnetv2"
      [] model_index = 3 -> "model_resnetv3"
      [] model_index = 4 -> "model_resnetv4"
      [] model_index = 5 -> "model_resnetv5"

ClassIndices == 0..MaxClass
\* lines 88-95: classes[name][predicted] and the predicted index itself
ClassValue(name, predicted) == [class |-> name, index |-> predicted]
NoValue == ClassValue("none", 0)

\* lines 103-106: what the reporting loop takes from a stored list
\* (Python indices 0, 1, 2, 3)
ReportRead(entry) ==
    [result_n2 |-> entry[1], result_index_n2 |-> entry[2],
     result_isat |-> entry[3], result_index_isat |-> entry[4]]

MultiPowerIdle ==
    /\ mp = [pc |-> "idle"]
    /\ mp_report = <<>>
    /\ mp_error = "none"

MultiPowerFrame ==
    UNCHANGED <<ge_vars, ln_vars, an_vars, aug_vars, split_vars, norm_vars, gp_vars>>

\* lines 10-51: the settings, the data and data_types_results = {}
MpStart ==
    /\ mp.pc = "idle"
    /\ mp' = [pc |-> "data_types_loop", data_types_results |-> EmptyDict,
              next_data_type |-> 0, data_types_index |-> -1,
              models |-> EmptyDict, next_model |-> 1, model_index |-> 0,
              model_version |-> "",
              result_n2 |-> NoValue, result_index_n2 |-> 0,
              result_power |-> NoValue, result_index_power |-> 0,
              result_isat |-> NoValue, result_index_isat |-> 0,
              report_data_type |-> 0, report_model |-> 1]
    /\ UNCHANGED <<mp_report, mp_error>>
    /\ MultiPowerFrame

\* lines 52-56: the next data type and models = {}, or the loop ends and
\* control reaches line 98
MpDataTypesLoop ==
    /\ mp.pc = "data_types_loop"
    /\ IF mp.next_data_type < Len(data_types)
       THEN mp' = [mp EXCEPT !.data_types_index = mp.next_data_type,
                             !.next_data_type = mp.next_data_type + 1,
                             !.models = EmptyDict,
                             !.next_model = 1,
                             !.pc = "models_loop"]
       ELSE mp' = [mp EXCEPT !.pc = "store_results"]
    /\ UNCHANGED <<mp_report, mp_error>>
    /\ MultiPowerFrame

\* lines 57-95: the next network is loaded and run and the six results
\* are assigned, or the loop ends and control reaches line 97
MpModelsLoop ==
    /\ mp.pc = "models_loop"
    /\ IF mp.next_model <= Len(ModelIndices)
       THEN \E predicted_n2 \in ClassIndices, predicted_power \in ClassIndices,
               predicted_isat \in ClassIndices :
              mp' = [mp EXCEPT !.model_index = ModelIndices[mp.next_model],
                               !.next_model = mp.next_model + 1,
                               !.model_version = MultiPowerVersion(ModelIndices[mp.next_model]),
                               !.result_n2 = ClassValue("n2", predicted_n2),
                               !.result_index_n2 = predicted_n2,
                               !.result_isat = ClassValue("isat", predicted_isat),
                               !.result_index_isat = predicted_isat,
                               !.result_power = ClassValue("power", predicted_power),
                               !.result_index_power = predicted_power]
       ELSE mp' = [mp EXCEPT !.pc = "store_model"]
    /\ UNCHANGED <<mp_report, mp_error>>
    /\ MultiPowerFrame

\* line 97, which follows the loop over the models
MpStoreModel ==
    /\ mp.pc = "store_model"
    /\ mp' = [mp EXCEPT !.models =
                            DictSet(mp.models, mp.model_version,
                                    <<mp.result_n2, mp.result_index_n2,
                                      mp.result_power, mp.result_index_power,
                                      mp.result_isat, mp.result_index_isat>>),
                        !.pc = "data_types_loop"]
    /\ UNCHANGED <<mp_report, mp_error>>
    /\ MultiPowerFrame

\* line 98, which follows the loop over the data types
MpStoreResults ==
    /\ mp.pc = "store_results"
    /\ mp' = [mp EXCEPT !.data_types_results =
                            DictSet(mp.data_types_results,
                                    data_types[mp.data_types_index + 1], mp.models),
                        !.pc = "report"]
    /\ UNCHANGED <<mp_report, mp_error>>
    /\ MultiPowerFrame

\* lines 101-119: one pass of the reporting loops: the lookups of a pair
\* raise KeyError or the four values are read and their statistics printed
MpReport ==
    /\ mp.pc = "report"
    /\ LET dt == data_types[mp.report_data_type + 1]
           key == ReportKey(ModelIndices[mp.report_model])
           last_model == mp.report_model = Len(ModelIndices)
           last_pair == last_model /\ mp.report_data_type + 1 = Len(data_types)
       IN IF dt \in DOMAIN mp.data_types_results
             /\ key \in DOMAIN mp.data_types_results[dt]
          THEN /\ mp_report' = Append(mp_report,
                                      [data_type |-> dt, model |-> key,
                                       read |-> ReportRead(mp.data_types_results[dt][key])])
               /\ mp' = [mp EXCEPT !.report_model = IF last_model THEN 1 ELSE @ + 1,
                                   !.report_data_type = IF last_model THEN @ + 1 ELSE @,
                                   !.pc = IF last_pair THEN "done" ELSE "report"]
               /\ UNCHANGED mp_error
          ELSE /\ mp_error' = "KeyError"
               /\ mp' = [mp EXCEPT !.pc = "raised"]
               /\ UNCHANGED mp_report
    /\ MultiPowerFrame

ExtIdle == ExtremaIdle /\ LineIdle /\ AnalysisIdle /\ MultiPowerIdle

(***************************************************************************)
(* Inputs: a dataset of nE distinct samples and three label arrays whose   *)
(* lengths the caller chose (equal in a well-formed call).                 *)
(***************************************************************************)
Lens == 0..MaxN
LevelsOf(a) == Cardinality({a[i] : i \in 1..Len(a)})
AugInput(nE, nn2, nisat, nalpha, dup) ==
    LET n2 == [i \in 1..nn2 |-> IF dup THEN 100 + (i % 2) ELSE 100 + i]
        isat == [i \in 1..nisat |-> 200 + i]
        alpha == [i \in 1..nalpha |-> IF dup THEN 300 ELSE 300 + i]
    IN [E |-> [i \in 1..nE |-> i], n2 |-> n2, isat |-> isat, alpha |-> alpha,
        counts |-> <<LevelsOf(n2), LevelsOf(isat), LevelsOf(alpha)>>]

AugInputs == {AugInput(a, b, c, d, dup) : a \in Lens, b \in Lens, c \in Lens, d \in Lens,
                                          dup \in BOOLEAN}

(***************************************************************************)
(* The process: imports, explicit set_seed calls, randomized operations.   *)
(***************************************************************************)
AugIdle ==
    /\ imported = {}
    /\ rng = [py |-> 0, np |-> 0, torch |-> 0]
    /\ last_seed = {}
    /\ fresh = FALSE
    /\ import_seed_calls = 0
    /\ unseeded_ops = FALSE
    /\ aug_in = AugInput(0, 0, 0, 0, FALSE)
    /\ aug_out = [res |-> NoResult, seed |-> {}, rerun |-> FALSE]
    /\ aug_ref = [s \in Seeds |-> NoResult]
    /\ seed_ref = [s \in Seeds |-> {}]

AugOnly == UNCHANGED <<split_vars, norm_vars, gp_vars, ext_vars>>

InitAug ==
    /\ SplitIdle /\ NormIdle /\ GPIdle /\ ExtIdle
    /\ imported = {}
    /\ \E e \in RngStates : rng = [py |-> e, np |-> e, torch |-> e]
    /\ last_seed = {}
    /\ fresh = FALSE
    /\ import_seed_calls = 0
    /\ unseeded_ops = FALSE
    /\ aug_in \in AugInputs
    /\ aug_out = [res |-> NoResult, seed |-> {}, rerun |-> FALSE]
    /\ aug_ref = [s \in Seeds |-> NoResult]
    /\ seed_ref = [s \in Seeds |-> {}]

\* history: the streams as the first set_seed(s) of the process left them
FirstSeeded(s, streams) ==
    IF seed_ref[s] = {} THEN [seed_ref EXCEPT ![s] = {streams}] ELSE seed_ref

\* a module body without its set_seed(10) line
ImportBody_without_seed(m) ==
    /\ m \notin imported
    /\ imported' = imported \cup {m}
    /\ UNCHANGED <<rng, last_seed, fresh, import_seed_calls, seed_ref>>
    /\ UNCHANGED <<unseeded_ops, aug_in, aug_out, aug_ref>>
    /\ AugOnly

\* the module body of augment.py / use.py: imports, then set_seed(10)
ImportBody(m) ==
    /\ m \notin imported
    /\ imported' = imported \cup {m}
    /\ rng' = set_seed(ModuleSeed)
    /\ last_seed' = {ModuleSeed}
    /\ fresh' = TRUE
    /\ import_seed_calls' = import_seed_calls + 1
    /\ seed_ref' = FirstSeeded(ModuleSeed, rng')
    /\ UNCHANGED <<unseeded_ops, aug_in, aug_out, aug_ref>>
    /\ AugOnly

ImportAugment == ImportBody("augment")
ImportUse == ImportBody("use")

\* engine.utils is loaded by either module's import
UtilsLoaded == imported # {}

\* a caller's own set_seed(s)
SetSeed ==
    /\ UtilsLoaded
    /\ \E s \in Seeds :
        /\ rng' = set_seed(s)
        /\ last_seed' = {s}
        /\ seed_ref' = FirstSeeded(s, rng')
    /\ fresh' = TRUE
    /\ UNCHANGED <<imported, import_seed_calls, unseeded_ops, aug_in, aug_out, aug_ref>>
    /\ AugOnly

\* utils.py experiment_noise: np.random.poisson and np.random.normal, one
\* draw per pixel each
ExperimentNoise ==
    /\ UtilsLoaded
    /\ \E pixels \in 1..2 : rng' = [rng EXCEPT !.np = Advance(rng.np, 2 * pixels)]
    /\ fresh' = FALSE
    /\ unseeded_ops' = (unseeded_ops \/ last_seed = {})
    /\ UNCHANGED <<imported, last_seed, import_seed_calls, aug_in, aug_out, aug_ref, seed_ref>>
    /\ AugOnly

\* utils.py elastic_saltpepper: random.randrange twice, random.uniform once
ElasticSaltpepper ==
    /\ UtilsLoaded
    /\ rng' = [rng EXCEPT !.py = Advance(rng.py, 3)]
    /\ fresh' = FALSE
    /\ unseeded_ops' = (unseeded_ops \/ last_seed = {})
    /\ UNCHANGED <<imported, last_seed, import_seed_calls, aug_in, aug_out, aug_ref, seed_ref>>
    /\ AugOnly

DataAugmentation ==
    /\ "augment" \in imported
    /\ LET r == data_augmentation(aug_in, rng.np)
       IN /\ rng' = [rng EXCEPT !.np = r.st]
          /\ aug_out' = [res |-> r.res,
                          seed |-> IF fresh THEN last_seed ELSE {},
                          rerun |-> fresh /\ \E s \in last_seed : aug_ref[s].status # "none"]
          /\ aug_ref' = IF fresh /\ \E s \in last_seed : aug_ref[s].status = "none"
                        THEN [s \in Seeds |-> IF s \in last_seed THEN r.res ELSE aug_ref[s]]
                        ELSE aug_ref
    /\ fresh' = FALSE
    /\ unseeded_ops' = (unseeded_ops \/ last_seed = {})
    /\ UNCHANGED <<imported, last_seed, import_seed_calls, aug_in, seed_ref>>
    /\ AugOnly

\* a process that uses engine.augment: its import, the caller's own seeding,
\* NumPy draws of the noise synthesizer, and the augmentation
NextAug ==
    \/ ImportAugment
    \/ SetSeed
    \/ ExperimentNoise
    \/ DataAugmentation

SpecAug == InitAug /\ [][NextAug]_vars

\* a process that uses augment, use or both, on one well-formed dataset
InitSeed ==
    /\ InitAug
    /\ aug_in = AugInput(MaxN, MaxN, MaxN, MaxN, FALSE)

NextSeed ==
    \/ ImportAugment
    \/ ImportUse
    \/ SetSeed
    \/ ExperimentNoise
    \/ ElasticSaltpepper
    \/ DataAugmentation

SpecSeed == InitSeed /\ [][NextSeed]_vars

InitSplit == AugIdle /\ SplitArgs /\ NormIdle /\ GPIdle /\ ExtIdle
NextSplit == DataSplit
SpecSplit == InitSplit /\ [][NextSplit]_vars

InitNorm ==
    /\ AugIdle /\ SplitIdle /\ GPIdle /\ ExtIdle
    /\ nd_in \in NormInputs
    /\ nd_data = nd_in
    /\ nd_first = <<>>
    /\ nd_calls = 0

InitGP == AugIdle /\ SplitIdle /\ NormIdle /\ GPIdle /\ ExtIdle

NextGP ==
    \/ GPCall
    \/ GPDevice
    \/ GPLoadWeights
    \/ GPPreprocess
    \/ GPAssemble
    \/ GPForward
    \/ GPDenormalize
    \/ GPPrint
    \/ GPDataCreation
    \/ GPPlotResults
    \/ GPReturn

SpecGP == InitGP /\ [][NextGP]_vars

NextNorm == NormalizeData
SpecNorm == InitNorm /\ [][NextNorm]_vars

InitExtrema ==
    /\ AugIdle /\ SplitIdle /\ NormIdle /\ GPIdle /\ LineIdle /\ AnalysisIdle
    /\ MultiPowerIdle
    /\ ge_in \in PhaseArrays
    /\ ge_arg = ge_in
    /\ ge_out = <<>>
    /\ ge_branch = "none"
NextExtrema == GeneralExtrema
SpecExtrema == InitExtrema /\ [][NextExtrema]_vars

InitLine ==
    /\ AugIdle /\ SplitIdle /\ NormIdle /\ GPIdle /\ ExtremaIdle /\ AnalysisIdle
    /\ MultiPowerIdle
    /\ \E im \in LineImages, k \in NumLines, a \in {1, 2}, dir \in Directions :
          /\ ln_args = [image |-> im, num_lines |-> k, amplitude |-> a, angle |-> dir]
          /\ ln_image = im
    /\ ln_out = <<>>
NextLine == LineNoise
SpecLine == InitLine /\ [][NextLine]_vars

InitAnalysis ==
    /\ AugIdle /\ SplitIdle /\ NormIdle /\ GPIdle /\ ExtremaIdle /\ LineIdle
    /\ MultiPowerIdle
    /\ an = [pc |-> "idle"]
    /\ an_disk \in [Powers -> {87, 100}]
    /\ an_file = NotWritten
NextAnalysis ==
    \/ AnCall
    \/ AnDataTypesLoop
    \/ AnModelsLoop
    \/ AnPowersLoop
    \/ AnStoreModel
    \/ AnStoreResults
    \/ AnWrite
SpecAnalysis == InitAnalysis /\ [][NextAnalysis]_vars

InitMultiPower ==
    /\ AugIdle /\ SplitIdle /\ NormIdle /\ GPIdle /\ ExtremaIdle /\ LineIdle
    /\ AnalysisIdle /\ MultiPowerIdle
NextMultiPower ==
    \/ MpStart
    \/ MpDataTypesLoop
    \/ MpModelsLoop
    \/ MpStoreModel
    \/ MpStoreResults
    \/ MpReport
SpecMultiPower == InitMultiPower /\ [][NextMultiPower]_vars

(***************************************************************************)
(* Claims about the augmentation stage and the seeding service.            *)
(***************************************************************************)
Perms(n) == {p \in [1..n -> 1..n] : \A i, j \in 1..n : p[i] = p[j] => i = j}
AugLengths == {Len(aug_in.E), Len(aug_in.n2), Len(aug_in.isat), Len(aug_in.alpha)}
AugWellFormed == Cardinality(AugLengths) = 1
AugReturned == aug_out.res.status = "returned"
AugCalled == aug_out.res.status # "none"

C2_SeededRunsAgree ==
    \A s \in aug_out.seed : aug_out.res = aug_ref[s]

\* C2 witness: a second run set_seed(s); data_augmentation on a dataset that
\* needs draws, after the streams had been used.
C2_Witness ==
    /\ aug_out.rerun
    /\ AugReturned
    /\ Len(aug_out.res.indices) >= 2

C10_MismatchRaises ==
    (AugCalled /\ ~AugWellFormed) => aug_out.res.status = "IndexError"

(***************************************************************************)
(* Claims about the dataset splitter.                                      *)
(***************************************************************************)
SplitReturned == split_call.out.status = "returned"
SplitCalled == split_call.out.status # "none"
RatiosSumToOne == split_call.tr + split_call.vr + split_call.te = Den
RatiosNonNegative == split_call.tr >= 0 /\ split_call.vr >= 0 /\ split_call.te >= 0
SplitN == Len(split_call.in.E)
\* floor(N * train_ratio) and floor(N * (train_ratio + validation_ratio))
FloorTrain == (SplitN * split_call.tr) \div Den
FloorValidation == (SplitN * (split_call.tr + split_call.vr)) \div Den

\* the elements of arr at the indices of [lo, hi) that the array has
RangeOf(arr, lo, hi) ==
    LET a == IF lo < 0 THEN 0 ELSE lo
        b == IF hi > Len(arr) THEN Len(arr) ELSE hi
    IN [k \in 1..(b - a) |-> arr[a + k]]

PartitionOf(arr, train, validation, test) ==
    /\ train = RangeOf(arr, 0, FloorTrain)
    /\ validation = RangeOf(arr, FloorTrain, FloorValidation)
    /\ test = RangeOf(arr, FloorValidation, Len(arr))
    /\ Len(train) + Len(validation) + Len(test) = Len(arr)
    /\ train \o validation \o test = arr
    /\ \A x \in SliceValues(train) : x \notin SliceValues(validation) \cup SliceValues(test)
    /\ \A x \in SliceValues(validation) : x \notin SliceValues(test)

SplitIsPartition ==
    LET in == split_call.in
        out == split_call.out
    IN /\ PartitionOf(in.E, out.train.E, out.validation.E, out.test.E)
       /\ PartitionOf(in.n2, out.train.n2, out.validation.n2, out.test.n2)
       /\ PartitionOf(in.isat, out.train.isat, out.validation.isat, out.test.isat)
       /\ PartitionOf(in.alpha, out.train.alpha, out.validation.alpha, out.test.alpha)

C4_BadRatiosRejected ==
    (SplitCalled /\ ~RatiosSumToOne) =>
        /\ split_call.out.status = "AssertionError"
        /\ split_call.out.train = NoPart
        /\ split_call.out.validation = NoPart
        /\ split_call.out.test = NoPart

\* C4 witness: the ratios (0.8, 0.1, 0.2) on a non-empty dataset, rejected.
C4_Witness ==
    /\ split_call.out.status = "AssertionError"
    /\ 10 * split_call.tr = 8 * Den
    /\ 10 * split_call.vr = Den
    /\ 10 * split_call.te = 2 * Den
    /\ SplitN > 0

(***************************************************************************)
(* Claims about normalize_data.                                            *)
(***************************************************************************)
NonZeroRange(sl) == \E x, y \in SliceValues(sl) : x # y
NormInputRegular == \A k \in SliceIds : NonZeroRange(nd_in[k])
InUnitInterval(x) == ~IsNaN(x) /\ FLeq(Whole(0), x) /\ FLeq(x, Whole(1))

\* C5: on an input whose slices all have a nonzero range, a second
\* normalize_data leaves every element as the first call left it, and each
\* slice on its own spans [0, 1] (its minimum is 0 and its maximum 1).
C5_NormalizeIdempotent ==
    (nd_calls >= 2 /\ NormInputRegular) =>
        /\ nd_data = nd_first
        /\ \A k \in SliceIds :
             /\ Whole(0) \in SliceValues(nd_data[k])
             /\ Whole(1) \in SliceValues(nd_data[k])
             /\ \A x \in SliceValues(nd_data[k]) : InUnitInterval(x)

\* C5 witness: two calls made on slices of different ranges, one of them
\* holding a value strictly between 0 and 1 after normalization.
C5_Witness ==
    /\ nd_calls = 2 /\ NormInputRegular
    /\ nd_in[1] # nd_in[2]
    /\ \E x \in SliceValues(nd_data[1]) : x # Whole(0) /\ x # Whole(1)

(***************************************************************************)
(* Claims about get_parameters.                                            *)
(***************************************************************************)
IsLeast(m, g) == m \in SliceValues(g) /\ \A x \in SliceValues(g) : m <= x
IsGreatest(m, g) == m \in SliceValues(g) /\ \A x \in SliceValues(g) : x <= m
LastEvent == gp_log[Len(gp_log)]
EventIndex(e) == {k \in 1..Len(gp_log) : gp_log[k].ev = e}

\* C6: the values get_parameters computes, and returns, are the network's
\* three outputs times the least n2, the greatest isat and the greatest
\* alpha of the grids in nlse_settings.
C6_Denormalized ==
    gp_computed # <<>> =>
        /\ \E m2 \in SliceValues(gp_args.n2), mi \in SliceValues(gp_args.isat),
              ma \in SliceValues(gp_args.alpha) :
              /\ IsLeast(m2, gp_args.n2)
              /\ IsGreatest(mi, gp_args.isat)
              /\ IsGreatest(ma, gp_args.alpha)
              /\ gp_computed = <<gp_outputs[1] * m2, gp_outputs[2] * mi, gp_outputs[3] * ma>>
        /\ gp_pc = "returned" => LastEvent = Event("return", gp_computed)

\* C6 witness: a call that returned, on grids that are not constant, with
\* three nonzero network outputs.
C6_Witness ==
    /\ gp_pc = "returned"
    /\ \A k \in 1..3 : gp_outputs[k] > 0
    /\ gp_args.n2[1] # gp_args.n2[2]
    /\ gp_args.isat[1] # gp_args.isat[2]
    /\ gp_args.alpha[1] # gp_args.alpha[2]

\* C7 (as claimed): for every training resolution R of cameras, once the
\* channels are assembled the call holds, for the network, a one-sample
\* 4-channel R x R tensor: amplitude, its descriptor, phase, its descriptor.
C7_TensorLayout ==
    gp_E # NoTensor =>
        /\ gp_E.shape = <<1, 4, gp_args.resolution_training, gp_args.resolution_training>>
        /\ gp_E.ch = <<"normalized_amplitude", "hog_amplitude",
                       "normalized_phase", "hog_phase">>
        /\ gp_error = "none"

\* C8 (as claimed): a call that completed the forward pass prints the three
\* values and ends by returning the triple, whatever the flag; data_creation
\* and plot_results are called only with the flag set, after the print,
\* with the 8-tuple (n2, power, alpha, isat, waist, nl_length, delta_z, length).
C8_PrintThenReturn ==
    /\ gp_outputs # <<>> => gp_pc # "raised"
    /\ gp_pc = "returned" =>
          /\ LastEvent = Event("return", gp_computed)
          /\ \E k \in EventIndex("print") : gp_log[k].arg = gp_computed
          /\ \A k \in EventIndex("data_creation") \cup EventIndex("plot_results") :
                /\ gp_args.plot_generate_compare
                /\ \E j \in EventIndex("print") : j < k
          /\ \A k \in EventIndex("data_creation") :
                gp_log[k].arg = <<gp_computed[1], gp_args.in_power, gp_computed[3],
                                  gp_computed[2], gp_args.waist, gp_args.nl_length,
                                  gp_args.delta_z, gp_args.length>>

Before(a, b) == \A k \in EventIndex(b) : \E j \in EventIndex(a) : j < k
\* event k lies inside a no_grad block: the last no_grad event before it is
\* an enter, and an exit follows
InNoGrad(k) ==
    /\ \E j \in EventIndex("no_grad_enter") :
          /\ j < k
          /\ \A i \in EventIndex("no_grad_exit") : i < j \/ i > k
    /\ \E i \in EventIndex("no_grad_exit") : i > k

\* C14: in every call (whether it returns or raises) the device is acquired
\* at most once and before anything is moved onto it; the network is on the
\* device, its weights loaded and the input tensor on the device before the
\* forward pass, which runs inside the no_grad block; and each output is
\* moved to the host before it is converted to an array.
C14_DeviceLifecycle ==
    /\ Cardinality(EventIndex("device")) <= 1
    /\ gp_dev.acquired = Cardinality(EventIndex("device"))
    /\ Before("device", "cnn_to_device")
    /\ Before("device", "images_to_device")
    /\ Before("cnn_to_device", "forward")
    /\ Before("load_state_dict", "forward")
    /\ Before("images_to_device", "forward")
    /\ \A k \in EventIndex("forward") : InNoGrad(k)
    /\ \A k \in EventIndex("numpy") :
          \E j \in EventIndex("cpu") : j < k /\ gp_log[j].arg = gp_log[k].arg
    /\ \A k \in EventIndex("cpu") : \E f \in EventIndex("forward") : f < k
    /\ gp_outputs # <<>> =>
          /\ gp_dev.cnn = "device" /\ gp_dev.weights /\ gp_dev.images = "device"
          /\ gp_dev.grad
    /\ gp_computed # <<>> =>
          /\ gp_dev.outputs = "host"
          /\ \A i \in 1..3 : \E k \in EventIndex("numpy") : gp_log[k].arg = <<i>>

\* C14 witness: a call that returned after one forward pass and the
\* conversion of its three outputs.
C14_Witness ==
    /\ gp_pc = "returned"
    /\ Cardinality(EventIndex("forward")) = 1
    /\ Cardinality(EventIndex("numpy")) = 3
    /\ gp_dev.acquired = 1

(***************************************************************************)
(* Claims about general_extrema.                                           *)
(***************************************************************************)
ExtremaCalled == ge_branch # "none"
NonNegative(E) == \A x \in Cells(E) : x >= 0

\* C11 (as claimed): when the center of the input exceeds its corner, the
\* returned array has center >= corner; and every returned array is
\* non-negative everywhere.
C11_CenterAboveCorner ==
    ExtremaCalled =>
        /\ Center(ge_in) > Corner(ge_in) => Center(ge_out) >= Corner(ge_out)
        /\ NonNegative(ge_out)

\* C11 (amended): when the center of the input exceeds its corner, the
\* returned array is max(E) - E, so its center is at most its corner; and
\* every returned array is non-negative everywhere.
C11_CenterBelowCorner ==
    ExtremaCalled =>
        /\ Center(ge_in) > Corner(ge_in) =>
              /\ Center(ge_out) <= Corner(ge_out)
              /\ \E m \in Cells(ge_in) :
                    /\ \A x \in Cells(ge_in) : x <= m
                    /\ \A i \in 1..Height(ge_in), j \in 1..Width(ge_in) :
                          ge_out[i][j] = m - ge_in[i][j]
        /\ NonNegative(ge_out)

\* C11 witness: a call on an array whose center exceeds its corner and whose
\* maximum lies in neither of them.
C11_Witness ==
    /\ ExtremaCalled
    /\ Center(ge_in) > Corner(ge_in)
    /\ \E x \in Cells(ge_in) : x > Center(ge_in)
    /\ Center(ge_out) > 0

\* C12 (as claimed): when the center of the input equals its corner, of
\* whatever sign, nothing is subtracted and the returned array is the
\* elementwise absolute value of the input.
C12_TieAnySign ==
    (ExtremaCalled /\ Center(ge_in) = Corner(ge_in)) =>
        /\ ge_out = ArrAbs(ge_in)
        /\ ge_arg = ge_in

\* C12 (amended): when the center of the input equals its corner and that
\* value is not negative, nothing is subtracted (the caller's array is left
\* as it was) and the returned array is the elementwise absolute value.
C12_TieNonNegative ==
    (ExtremaCalled /\ Center(ge_in) = Corner(ge_in) /\ Center(ge_in) >= 0) =>
        /\ ge_branch = "abs"
        /\ ge_out = ArrAbs(ge_in)
        /\ ge_arg = ge_in

\* C12 witness: a tie at a non-negative value in an array that also holds a
\* negative value in a cell other than the center and the corner.
C12_Witness ==
    /\ ExtremaCalled
    /\ Center(ge_in) = Corner(ge_in) /\ Center(ge_in) >= 0
    /\ Height(ge_in) * Width(ge_in) > 1
    /\ \E x \in Cells(ge_in) : x < 0

(***************************************************************************)
(* Claims about line_noise.                                                *)
(***************************************************************************)
LineCalled == ln_out # <<>>
LineHeight == Len(ln_out)
LineWidth == Len(ln_out[1])
\* the phase advance between two pixels, as a numerator over den*sqrt(diag2)
Advance2(y1, x1, y2, x2) == ln_out[y2][x2].num - ln_out[y1][x1].num
\* a phase advance num / (den * sqrt(diag2)) is exactly k periods
IsPeriods(num, den, diag2, k) == num >= 0 /\ num * num = k * k * den * den * diag2
\* ... is strictly fewer than k periods, in either sense
BelowPeriods(num, den, diag2, k) == num * num < k * k * den * den * diag2
CornerAdvance == Advance2(1, 1, LineHeight, LineWidth)
\* the advance over the full extent of the image, (0, 0) to (width, height)
ExtentAdvance ==
    X_rotated(LineWidth, LineHeight, ln_args.angle) * ln_args.num_lines

\* C13 (as claimed): for every size, angle and k, the phase of the pattern
\* advances by exactly k periods from one end of the image diagonal to the
\* other (between the corner pixels, or over the full extent of the image),
\* and the input image is left as it was.
C13_PeriodsAlongDiagonal ==
    LineCalled =>
        /\ \/ IsPeriods(CornerAdvance, ln_out[1][1].den, ln_out[1][1].diag2,
                        ln_args.num_lines)
           \/ IsPeriods(ExtentAdvance, ln_out[1][1].den, ln_out[1][1].diag2,
                        ln_args.num_lines)
        /\ ln_image = ln_args.image

\* C13 (amended): the phase is linear in the rotated coordinate
\* X cos(angle) + Y sin(angle), at k periods per diagonal length
\* sqrt(width^2 + height^2) of distance along the direction of the angle;
\* between the two corner pixels of the diagonal it advances by strictly
\* fewer than k periods; the input image is left as it was and the result
\* is the image plus the pattern.
C13_PeriodsAlongAngle ==
    LineCalled =>
        /\ \A y1, y2 \in 1..LineHeight, x1, x2 \in 1..LineWidth :
              /\ Advance2(y1, x1, y2, x2) =
                    ln_args.num_lines * X_rotated(x2 - x1, y2 - y1, ln_args.angle)
              /\ ln_out[y1][x1].den = DirDen
              /\ ln_out[y1][x1].diag2 = LineWidth * LineWidth + LineHeight * LineHeight
              /\ ln_out[y1][x1].amplitude = ln_args.amplitude
              /\ ln_out[y1][x1].base = ln_args.image[y1][x1]
        /\ BelowPeriods(CornerAdvance, ln_out[1][1].den, ln_out[1][1].diag2,
                        ln_args.num_lines)
        /\ ln_image = ln_args.image

\* C13 witness: 50 lines on a graded 4 x 3 image at the angle of its
\* diagonal, where the corner pixels are 50 * (18/5) / 5 = 36 periods apart.
C13_Witness ==
    /\ LineCalled
    /\ ln_args.num_lines = 50
    /\ LineWidth = 4 /\ LineHeight = 3
    /\ ln_args.angle = [c |-> 4, s |-> 3]
    /\ ln_args.image[1][1] # 0
    /\ IsPeriods(CornerAdvance, DirDen, 25, 36)

(***************************************************************************)
(* Claims about the analysis scripts.                                      *)
(***************************************************************************)
Range(f) == {f[k] : k \in DOMAIN f}
SinglePowerVersions == {SinglePowerVersion(i) : i \in Range(ModelIndices)}
MultiPowerVersions == {ReportKey(i) : i \in Range(ModelIndices)}
InferenceEnded == mp.pc \in {"report", "done", "raised"}

\* C15 (as claimed): the result analysis writes holds an entry for each of
\* the 6 data types, each holding a record for each of the 4 model versions,
\* whose accuracy and index_error lists hold one value per power of
\* power_values, in the order of power_values.
C15_AnalysisComplete ==
    an_file.written =>
        /\ DOMAIN an_file.content = Range(data_types)
        /\ \A dt \in DOMAIN an_file.content :
              /\ DOMAIN an_file.content[dt] = SinglePowerVersions
              /\ \A mv \in DOMAIN an_file.content[dt] :
                    LET rec == an_file.content[dt][mv]
                    IN /\ DOMAIN rec = {"accuracy", "index_error"}
                       /\ Len(rec["accuracy"]) = Len(an.power_values)
                       /\ Len(rec["index_error"]) = Len(an.power_values)
                       /\ \A k \in 1..Len(an.power_values) :
                             rec["accuracy"][k] = an_disk[an.power_values[k]]

\* C16 (as claimed): once the inference loops have ended, data_types_results
\* holds an entry for every data type and every model_resnetv2..5, so no
\* lookup of the reporting loop fails; and what the reporting loop reads as
\* the isat result and isat index of a stored pair are the isat prediction
\* stored for it (the fifth and sixth elements of its list).
C16_ReportFindsIsat ==
    InferenceEnded =>
        /\ DOMAIN mp.data_types_results = Range(data_types)
        /\ \A dt \in DOMAIN mp.data_types_results :
              /\ DOMAIN mp.data_types_results[dt] = MultiPowerVersions
              /\ \A mv \in DOMAIN mp.data_types_results[dt] :
                    LET entry == mp.data_types_results[dt][mv]
                    IN /\ ReportRead(entry).result_isat = entry[5]
                       /\ ReportRead(entry).result_index_isat = entry[6]
                       /\ entry[5].class = "isat"
        /\ mp_error = "none"
====
